---- MODULE Spec2Model ----
(***************************************************************************)
(* A model of the MoE memory / FLOPs calculator of src/main.py:            *)
(* MoEConfig, MoEMemoryCalculator, load_config, calculate_moe_metrics and  *)
(* main.                                                                   *)
(*                                                                         *)
(* Numbers.  Python computes with unbounded ints and with floats.  Every   *)
(* non-integer the program meets is a dyadic rational (0.5 bytes for int4, *)
(* 0.75 in the RoPE term, f_mult such as 1.25), and sums and products of   *)
(* dyadic rationals below 2^53 are exact in IEEE double arithmetic, as is  *)
(* the division by 1024 ** 3.  A number is therefore modelled exactly, as  *)
(* the record [n |-> mantissa, e |-> exponent] standing for n / 2^e, in    *)
(* lowest terms, the mantissa being an unbounded natural held as its       *)
(* little-endian sequence of base-10^4 digits (37043044864 bytes does not  *)
(* fit a 32-bit integer).  Equal numbers are equal records.  The model     *)
(* does not cover float rounding above 2^53, overflow to inf, or negative  *)
(* numbers.                                                                *)
(***************************************************************************)
EXTENDS Integers, Sequences, FiniteSets, TLC

(***************************************************************************)
(* Unbounded naturals: Python's int.                                       *)
(***************************************************************************)
Base == 10 ^ 4

RECURSIVE BNat(_)
BNat(i) == IF i = 0 THEN <<>> ELSE <<i % Base>> \o BNat(i \div Base)

RECURSIVE BAddC(_, _, _)
BAddC(a, b, c) ==
    IF a = <<>> /\ b = <<>>
    THEN BNat(c)
    ELSE LET x == IF a = <<>> THEN 0 ELSE Head(a)
             y == IF b = <<>> THEN 0 ELSE Head(b)
             t == x + y + c
         IN  <<t % Base>> \o BAddC(IF a = <<>> THEN a ELSE Tail(a),
                                   IF b = <<>> THEN b ELSE Tail(b),
                                   t \div Base)

BAdd(a, b) == BAddC(a, b, 0)

RECURSIVE BMulDigit(_, _, _)
BMulDigit(a, m, c) ==
    IF a = <<>>
    THEN BNat(c)
    ELSE LET t == Head(a) * m + c
         IN  <<t % Base>> \o BMulDigit(Tail(a), m, t \div Base)

RECURSIVE BMul(_, _)
BMul(a, b) ==
    IF a = <<>> \/ b = <<>>
    THEN <<>>
    ELSE LET rest == BMul(a, Tail(b))
             low  == IF Head(b) = 0 THEN <<>> ELSE BMulDigit(a, Head(b), 0)
         IN  BAdd(low, IF rest = <<>> THEN rest ELSE <<0>> \o rest)

\* Base is even, so the lowest digit decides.
BOdd(a) == a # <<>> /\ a[1] % 2 = 1

BHalf(a) ==
    LET q == [i \in 1..Len(a) |->
                 (a[i] + (IF i < Len(a) THEN (a[i + 1] % 2) * Base ELSE 0)) \div 2]
    IN  IF q # <<>> /\ q[Len(q)] = 0 THEN SubSeq(q, 1, Len(q) - 1) ELSE q

BLess(a, b) ==
    IF Len(a) # Len(b)
    THEN Len(a) < Len(b)
    ELSE \E i \in 1..Len(a) :
            /\ a[i] < b[i]
            /\ \A j \in (i + 1)..Len(a) : a[j] = b[j]

RECURSIVE BPow2(_)
BPow2(k) == IF k = 0 THEN <<1>> ELSE BMulDigit(BPow2(k - 1), 2, 0)

RECURSIVE BLog2(_)
BLog2(a) == IF a = <<1>> THEN 0 ELSE 1 + BLog2(BHalf(a))

(***************************************************************************)
(* Dyadic rationals n / 2^e: Python's int (e = 0) and float.               *)
(***************************************************************************)
RECURSIVE DNorm(_, _)
DNorm(n, e) ==
    IF n = <<>> THEN [n |-> <<>>, e |-> 0]
    ELSE IF e > 0 /\ ~BOdd(n) THEN DNorm(BHalf(n), e - 1)
    ELSE [n |-> n, e |-> e]

D(i, e) == DNorm(BNat(i), e)

I(i) == D(i, 0)

DMul(x, y) == DNorm(BMul(x.n, y.n), x.e + y.e)

DScaled(x, e) == BMul(x.n, BPow2(e - x.e))

DMaxExp(x, y) == IF x.e < y.e THEN y.e ELSE x.e

DAdd(x, y) ==
    LET e == DMaxExp(x, y) IN DNorm(BAdd(DScaled(x, e), DScaled(y, e)), e)

DLess(x, y) ==
    LET e == DMaxExp(x, y) IN BLess(DScaled(x, e), DScaled(y, e))

RECURSIVE DPow(_, _)
DPow(x, k) == IF k = 0 THEN I(1) ELSE DMul(DPow(x, k - 1), x)

\* x / y for y a power of two (the only divisor the calculator uses).
DDiv(x, y) == DNorm(x.n, x.e + BLog2(y.n))

a \otimes b == DMul(a, b)

a \oplus b == DAdd(a, b)

(***************************************************************************)
(* PRECISION_BYTES, MoEConfig and the calculator's methods, as operators   *)
(* of the calculator's fields: k is self.bytes_per_param, c self.config.   *)
(***************************************************************************)
\* A variant of PRECISION_BYTES that holds whole bytes only.
PRECISION_BYTES_whole ==
    [float32 |-> I(4), bfloat16 |-> I(2), float16 |-> I(2), int8 |-> I(1),
     int4 |-> I(1)]

PRECISION_BYTES ==
    [float32 |-> I(4), bfloat16 |-> I(2), float16 |-> I(2), int8 |-> I(1),
     int4 |-> D(1, 1)]

Fields == {"V", "h", "l", "a", "N", "f_mult", "s", "top_k"}

get_default_config ==
    [V |-> 32000, h |-> 4096, l |-> 32, a |-> 32, N |-> 8, f_mult |-> D(5, 2),
     s |-> 2048, top_k |-> 2]

calculate_embedding_weights(k, c) == I(2) \otimes k \otimes I(c.V) \otimes I(c.h)

calculate_ln_weights(k, c) == I(4) \otimes k \otimes I(c.h)

calculate_attention_weights(k, c) ==
    I(4) \otimes k \otimes I(c.h) \otimes (I(c.h) \oplus I(1))

calculate_router_weights(k, c) == k \otimes I(c.N) \otimes (I(c.h) \oplus I(1))

calculate_moe_layer_weights(k, c) ==
    k \otimes I(c.N) \otimes I(c.h)
      \otimes (I(3) \otimes c.f_mult \otimes I(c.h) \oplus I(2) \otimes c.f_mult \oplus I(1))

calculate_decoder_weights(k, c) ==
    LET ln        == calculate_ln_weights(k, c)
        attention == calculate_attention_weights(k, c)
        router    == calculate_router_weights(k, c)
        moe_layer == calculate_moe_layer_weights(k, c)
    IN  ln \oplus attention \oplus router \oplus moe_layer

calculate_model_weights(k, c) ==
    LET embedding == calculate_embedding_weights(k, c)
        decoder   == calculate_decoder_weights(k, c)
    IN  embedding \oplus I(c.l) \otimes decoder

\* A variant of calculate_kv_cache that counts the keys but not the values.
calculate_kv_cache_keys_only(k, c) == k \otimes I(c.l) \otimes I(c.s) \otimes I(c.h)

calculate_kv_cache(k, c) == I(2) \otimes k \otimes I(c.l) \otimes I(c.s) \otimes I(c.h)

calculate_embedding_flops(c) == I(4) \otimes I(c.s) \otimes I(c.V) \otimes I(c.h)

calculate_ln_flops(c) == I(14) \otimes I(c.s) \otimes I(c.h)

calculate_attention_flops(c) ==
    I(c.s) \otimes (I(8) \otimes DPow(I(c.h), 2)
                      \oplus I(4) \otimes I(c.s) \otimes I(c.h)
                      \oplus I(3) \otimes I(c.s) \otimes I(c.a))

calculate_rope_flops(c) == D(3, 2) \otimes I(c.h)

calculate_router_flops(c) ==
    I(c.s) \otimes I(c.N) \otimes (I(2) \otimes I(c.h) \oplus I(3))

calculate_moe_layer_flops(c) ==
    I(2) \otimes I(c.top_k) \otimes I(c.s) \otimes c.f_mult \otimes I(c.h)
      \otimes (I(4) \otimes I(c.h) \oplus I(3))

calculate_decoder_flops(c) ==
    LET ln        == calculate_ln_flops(c)
        attention == calculate_attention_flops(c)
        rope      == calculate_rope_flops(c)
        router    == calculate_router_flops(c)
        moe_layer == calculate_moe_layer_flops(c)
    IN  ln \oplus attention \oplus rope \oplus router \oplus moe_layer

calculate_prefill_flops(c) ==
    LET embedding == calculate_embedding_flops(c)
        decoder   == calculate_decoder_flops(c)
    IN  embedding \oplus I(c.l) \otimes decoder

\* A variant of calculate_attention_flops_decode that is the prefill formula.
calculate_attention_flops_decode_as_prefill(c) == calculate_attention_flops(c)

calculate_attention_flops_decode(c) ==
    I(8) \otimes DPow(I(c.h), 2)
      \oplus I(4) \otimes I(c.s) \otimes I(c.h)
      \oplus I(3) \otimes I(c.s) \otimes I(c.a)

bytes_to_gb == DPow(I(1024), 3)

(***************************************************************************)
(* The report's "{x:.2f}": x rounded to hundredths, ties to even (x is the *)
(* exact value of the float, and Python rounds that exactly).  The result  *)
(* is the number of hundredths: 3450 for the text "34.50".                 *)
(***************************************************************************)
RECURSIVE BShiftRight(_, _)
BShiftRight(a, k) == IF k = 0 THEN a ELSE BShiftRight(BHalf(a), k - 1)

format_2f(x) ==
    LET m      == BMulDigit(x.n, 100, 0)
        q      == BShiftRight(m, x.e)
        next   == BAdd(q, <<1>>)
        middle == BMul(BAdd(BMulDigit(q, 2, 0), <<1>>), BPow2(x.e))
        twice  == BMulDigit(m, 2, 0)
    IN  IF BLess(middle, twice) THEN next
        ELSE IF middle = twice /\ BOdd(q) THEN next
        ELSE q

(***************************************************************************)
(* Text.  A line of input is a sequence of characters; str.strip removes   *)
(* the white space at both ends and str.lower maps capitals to small       *)
(* letters.  The characters are those of the lines drawn below: blank and  *)
(* tab for white space, and the letters of the words.                      *)
(***************************************************************************)
Whitespace == {" ", "\t"}

UpperCase == <<"A", "B", "F", "I", "L", "N", "O", "P", "T">>
LowerCase == <<"a", "b", "f", "i", "l", "n", "o", "p", "t">>

lower_char(ch) ==
    IF \E i \in DOMAIN UpperCase : UpperCase[i] = ch
    THEN LowerCase[CHOOSE i \in DOMAIN UpperCase : UpperCase[i] = ch]
    ELSE ch

lower(text) == [i \in DOMAIN text |-> lower_char(text[i])]

RECURSIVE lstrip(_)
lstrip(text) ==
    IF text # <<>> /\ Head(text) \in Whitespace THEN lstrip(Tail(text)) ELSE text

RECURSIVE rstrip(_)
rstrip(text) ==
    IF text # <<>> /\ text[Len(text)] \in Whitespace
    THEN rstrip(SubSeq(text, 1, Len(text) - 1))
    ELSE text

\* A variant of strip that leaves the white space at the end.
strip_leading_only(text) == lstrip(text)

strip(text) == rstrip(lstrip(text))

\* The characters of each key of PRECISION_BYTES.
Spelling ==
    [float32  |-> <<"f", "l", "o", "a", "t", "3", "2">>,
     bfloat16 |-> <<"b", "f", "l", "o", "a", "t", "1", "6">>,
     float16  |-> <<"f", "l", "o", "a", "t", "1", "6">>,
     int8     |-> <<"i", "n", "t", "8">>,
     int4     |-> <<"i", "n", "t", "4">>]

\* text in PRECISION_BYTES
IsPrecisionKey(text) == \E label \in DOMAIN PRECISION_BYTES : Spelling[label] = text

KeyOf(text) == CHOOSE label \in DOMAIN PRECISION_BYTES : Spelling[label] = text

None == <<>>
Some(v) == <<v>>
The(o) == o[1]

(***************************************************************************)
(* The state.  config is the one MoEConfig object every calculator holds a *)
(* reference to; calculator is the MoEMemoryCalculator in use (precision,  *)
(* bytes_per_param); raised is the exception that ended the program, if    *)
(* any.  pc is the statement about to run and op the caller of the method  *)
(* in progress (a method name, or "main"); main, total, decode and decoder *)
(* are the local variables of the active calls of main, calculate_total,   *)
(* calculate_decode_flops and calculate_decoder_flops_decode.  ret is the  *)
(* value the last call returned.  entry, precision_arg, last_total and     *)
(* prev_total belong to the caller: the config as it was when the call in  *)
(* progress (or the last one) started, the label it last gave to the       *)
(* constructor, and the results of its last two calculate_total calls.     *)
(* source is the pair of arguments handed to load_config, stdin the line   *)
(* main reads, stdout what has been printed.                               *)
(***************************************************************************)
VARIABLES source, config, calculator, precision_arg, raised, pc, op, main, total,
          decode, decoder, ret, entry, last_total, prev_total, stdin, stdout

vars == <<source, config, calculator, precision_arg, raised, pc, op, main, total,
          decode, decoder, ret, entry, last_total, prev_total, stdin, stdout>>

frames == <<main, total, decode, decoder>>
history == <<last_total, prev_total>>
io == <<source, stdin, stdout>>

(***************************************************************************)
(* load_config and MoEConfig.from_dict.  A mapping is a function from its  *)
(* keys to values; config_path is None or a path: its name and what        *)
(* open / json.load find there.                                            *)
(***************************************************************************)
\* cls(**config): the keys must be exactly the eight fields.
from_dict(data) ==
    IF data.kind = "object" /\ DOMAIN data.value = Fields
    THEN [config |-> Some([f \in Fields |-> data.value[f]]), raised |-> ""]
    ELSE [config |-> None, raised |-> "TypeError"]

\* Python's truth value of the two arguments.
Truthy(argument) ==
    /\ argument # None
    /\ \/ The(argument).kind = "path" /\ The(argument).name # <<>>
       \/ The(argument).kind = "object" /\ DOMAIN The(argument).value # {}

load_config(config_path, config_dict) ==
    IF Truthy(config_path)
    THEN LET file == The(config_path).file
         IN  CASE file.kind = "missing"   -> [config |-> None, raised |-> "FileNotFoundError"]
               [] file.kind = "malformed" -> [config |-> None, raised |-> "JSONDecodeError"]
               [] OTHER -> from_dict(file)
    ELSE IF Truthy(config_dict)
    THEN from_dict(The(config_dict))
    ELSE from_dict([kind |-> "object", value |-> get_default_config])

LoadConfig ==
    /\ pc = "load_config"
    /\ LET loaded == load_config(source.config_path, source.config_dict)
       IN  /\ config' = loaded.config
           /\ raised' = loaded.raised
           /\ pc' = IF loaded.raised = "" THEN "idle" ELSE "raised"
    /\ UNCHANGED <<calculator, precision_arg, op, frames, ret, entry, history, io>>

(***************************************************************************)
(* MoEMemoryCalculator.__init__: the lookup PRECISION_BYTES[precision]     *)
(* raises KeyError for a label that is not a key.                          *)
(***************************************************************************)
\* A variant of the lookup that falls back to bfloat16's 2 bytes.
BytesPerParam_defaulting(precision) ==
    IF precision \in DOMAIN PRECISION_BYTES
    THEN Some(PRECISION_BYTES[precision])
    ELSE Some(PRECISION_BYTES["bfloat16"])

BytesPerParam(precision) ==
    IF precision \in DOMAIN PRECISION_BYTES
    THEN Some(PRECISION_BYTES[precision])
    ELSE None

\* The calculator and the exception a construction leaves.
Constructed(precision) ==
    LET k == BytesPerParam(precision)
    IN  IF k = None
        THEN [calculator |-> None, raised |-> "KeyError"]
        ELSE [calculator |-> Some([precision |-> precision, bytes_per_param |-> The(k)]),
              raised |-> ""]

Construct(precision) ==
    /\ pc = "idle"
    /\ precision_arg' = Some(precision)
    /\ LET made == Constructed(precision)
       IN  IF made.raised # ""
           THEN /\ raised' = made.raised
                /\ pc' = "raised"
                /\ UNCHANGED calculator
           ELSE /\ calculator' = made.calculator
                /\ UNCHANGED <<raised, pc>>
    /\ UNCHANGED <<config, op, frames, ret, entry, history, io>>

(***************************************************************************)
(* A call of one of the three methods on the calculator.                   *)
(***************************************************************************)
Methods ==
    {"calculate_total", "calculate_decode_flops", "calculate_decoder_flops_decode"}

FirstStatement(method) ==
    CASE method = "calculate_total" -> "total_memory"
      [] method = "calculate_decode_flops" -> "decode_save"
      [] method = "calculate_decoder_flops_decode" -> "decoder_save"

Call(method) ==
    /\ pc = "idle"
    /\ calculator # None
    /\ op' = method
    /\ pc' = FirstStatement(method)
    /\ entry' = config
    /\ ret' = None
    /\ UNCHANGED <<config, calculator, precision_arg, raised, frames, history, io>>

\* calculate_total, lines 284-288
TotalMemory ==
    /\ pc = "total_memory"
    /\ LET k == The(calculator).bytes_per_param
           c == The(config)
           weights_bytes  == calculate_model_weights(k, c)
           kv_cache_bytes == calculate_kv_cache(k, c)
       IN  total' = [weights_bytes  |-> weights_bytes,
                     kv_cache_bytes |-> kv_cache_bytes,
                     total_bytes    |-> weights_bytes \oplus kv_cache_bytes,
                     prefill_flops  |-> calculate_prefill_flops(c)]
    /\ pc' = "decode_save"
    /\ UNCHANGED <<config, calculator, precision_arg, raised, op, main, decode,
                   decoder, ret, entry, history, io>>

\* self.config.s = s
WriteS(c, s) == Some([The(c) EXCEPT !.s = s])

\* calculate_decode_flops, lines 266-269
DecodeSave ==
    /\ pc = "decode_save"
    /\ decode' = [original_s |-> The(config).s]
    /\ config' = WriteS(config, 1)
    /\ pc' = "decode_embedding"
    /\ UNCHANGED <<calculator, precision_arg, raised, op, main, total, decoder, ret,
                   entry, history, io>>

\* line 270
DecodeEmbedding ==
    /\ pc = "decode_embedding"
    /\ decode' = decode @@ [embedding |-> calculate_embedding_flops(The(config))]
    /\ pc' = "decode_restore"
    /\ UNCHANGED <<config, calculator, precision_arg, raised, op, main, total,
                   decoder, ret, entry, history, io>>

\* A variant of DecodeRestore that leaves config.s as it is.
DecodeRestore_forgotten ==
    /\ pc = "decode_restore"
    /\ pc' = "decoder_save"
    /\ UNCHANGED <<config, calculator, precision_arg, raised, op, main, total, decode,
                   decoder, ret, entry, history, io>>

\* line 271
DecodeRestore ==
    /\ pc = "decode_restore"
    /\ config' = WriteS(config, decode.original_s)
    /\ pc' = "decoder_save"
    /\ UNCHANGED <<calculator, precision_arg, raised, op, main, total, decode,
                   decoder, ret, entry, history, io>>

\* calculate_decoder_flops_decode, lines 246-247
DecoderSave ==
    /\ pc = "decoder_save"
    /\ decoder' = [original_s |-> The(config).s]
    /\ config' = WriteS(config, 1)
    /\ pc' = "decoder_components"
    /\ UNCHANGED <<calculator, precision_arg, raised, op, main, total, decode, ret,
                   entry, history, io>>

\* lines 249-252
DecoderComponents ==
    /\ pc = "decoder_components"
    /\ LET c == The(config)
       IN  decoder' = decoder @@ [ln        |-> calculate_ln_flops(c),
                                  rope      |-> calculate_rope_flops(c),
                                  router    |-> calculate_router_flops(c),
                                  moe_layer |-> calculate_moe_layer_flops(c)]
    /\ pc' = "decoder_restore"
    /\ UNCHANGED <<config, calculator, precision_arg, raised, op, main, total,
                   decode, ret, entry, history, io>>

\* A variant of DecoderRestore that leaves config.s as it is.
DecoderRestore_forgotten ==
    /\ pc = "decoder_restore"
    /\ pc' = "decoder_attention"
    /\ UNCHANGED <<config, calculator, precision_arg, raised, op, main, total, decode,
                   decoder, ret, entry, history, io>>

\* line 255
DecoderRestore ==
    /\ pc = "decoder_restore"
    /\ config' = WriteS(config, decoder.original_s)
    /\ pc' = "decoder_attention"
    /\ UNCHANGED <<calculator, precision_arg, raised, op, main, total, decode,
                   decoder, ret, entry, history, io>>

\* lines 258-260, and the return to the caller (line 274 when nested)
DecoderAttention ==
    /\ pc = "decoder_attention"
    /\ LET attention == calculate_attention_flops_decode(The(config))
           value == decoder.ln \oplus attention \oplus decoder.rope
                      \oplus decoder.router \oplus decoder.moe_layer
       IN  IF op = "calculate_decoder_flops_decode"
           THEN /\ ret' = Some(value)
                /\ pc' = "idle"
                /\ UNCHANGED decode
           ELSE /\ decode' = decode @@ [decoder |-> value]
                /\ pc' = "decode_return"
                /\ UNCHANGED ret
    /\ decoder' = None
    /\ UNCHANGED <<config, calculator, precision_arg, raised, op, main, total,
                   entry, history, io>>

\* lines 275-277, and the return to the caller (line 289 when nested)
DecodeReturn ==
    /\ pc = "decode_return"
    /\ LET value == decode.embedding \oplus I(The(config).l) \otimes decode.decoder
       IN  IF op = "calculate_decode_flops"
           THEN /\ ret' = Some(value)
                /\ pc' = "idle"
                /\ UNCHANGED total
           ELSE /\ total' = total @@ [decode_flops |-> value]
                /\ pc' = "total_return"
                /\ UNCHANGED ret
    /\ decode' = None
    /\ UNCHANGED <<config, calculator, precision_arg, raised, op, main, decoder,
                   entry, history, io>>

\* A variant of Metrics with the two FLOPs entries exchanged.
Metrics_flops_exchanged(t, precision) ==
    [weights_gb     |-> DDiv(t.weights_bytes, bytes_to_gb),
     kv_cache_gb    |-> DDiv(t.kv_cache_bytes, bytes_to_gb),
     total_gb       |-> DDiv(t.total_bytes, bytes_to_gb),
     weights_bytes  |-> t.weights_bytes,
     kv_cache_bytes |-> t.kv_cache_bytes,
     total_bytes    |-> t.total_bytes,
     prefill_flops  |-> t.decode_flops,
     decode_flops   |-> t.prefill_flops,
     precision      |-> precision]

\* The dict calculate_total returns, lines 294-304.
Metrics(t, precision) ==
    [weights_gb     |-> DDiv(t.weights_bytes, bytes_to_gb),
     kv_cache_gb    |-> DDiv(t.kv_cache_bytes, bytes_to_gb),
     total_gb       |-> DDiv(t.total_bytes, bytes_to_gb),
     weights_bytes  |-> t.weights_bytes,
     kv_cache_bytes |-> t.kv_cache_bytes,
     total_bytes    |-> t.total_bytes,
     prefill_flops  |-> t.prefill_flops,
     decode_flops   |-> t.decode_flops,
     precision      |-> precision]

\* calculate_total, lines 291-304, and the return to the caller
TotalReturn ==
    /\ pc = "total_return"
    /\ LET metrics == Metrics(total, The(calculator).precision)
       IN  /\ ret' = Some(metrics)
           /\ last_total' = Some(metrics)
    /\ prev_total' = last_total
    /\ total' = None
    /\ pc' = IF op = "main" THEN "main_report" ELSE "idle"
    /\ UNCHANGED <<config, calculator, precision_arg, raised, op, main, decode,
                   decoder, entry, io>>

Steps ==
    \/ TotalMemory
    \/ DecodeSave
    \/ DecodeEmbedding
    \/ DecodeRestore
    \/ DecoderSave
    \/ DecoderComponents
    \/ DecoderRestore
    \/ DecoderAttention
    \/ DecodeReturn
    \/ TotalReturn

(***************************************************************************)
(* main and calculate_moe_metrics.  A printed line is a record: its kind,  *)
(* and the text it quotes.  Of the report, the precision and the three     *)
(* memory figures are modelled; the two TFLOPs figures, which are rounded  *)
(* floats (flops / 1e12), are left out.                                    *)
(***************************************************************************)
Line(kind) == [line |-> kind]

\* main, lines 367-372
MainLoad ==
    /\ pc = "main"
    /\ LET loaded == load_config(None, None)
       IN  /\ config' = loaded.config
           /\ raised' = loaded.raised
           /\ pc' = IF loaded.raised = "" THEN "main_precision" ELSE "raised"
    /\ stdout' = stdout \o <<Line("title"), Line("rule"), Line("using default")>>
    /\ UNCHANGED <<source, stdin, calculator, precision_arg, op, frames, ret, entry,
                   history>>

\* lines 392-398: the precision chosen and what is printed about it.
ChoosePrecision(precision_input) ==
    IF precision_input = <<>>
    THEN [precision |-> "bfloat16", printed |-> <<>>]
    ELSE IF IsPrecisionKey(precision_input)
    THEN [precision |-> KeyOf(precision_input), printed |-> <<>>]
    ELSE [precision |-> "bfloat16",
          printed |-> <<[line |-> "invalid precision", text |-> precision_input]>>]

\* main, lines 388-398
MainPrecision ==
    /\ pc = "main_precision"
    /\ LET precision_input == lower(strip(stdin))
           chosen == ChoosePrecision(precision_input)
       IN  /\ main' = [precision_input |-> precision_input,
                       precision |-> chosen.precision]
           /\ stdout' = stdout \o <<Line("available"), Line("prompt")>> \o chosen.printed
    /\ pc' = "main_metrics"
    /\ UNCHANGED <<source, stdin, config, calculator, precision_arg, raised, op, total,
                   decode, decoder, ret, entry, history>>

\* main, line 401, into calculate_moe_metrics, lines 340-341
MainMetrics ==
    /\ pc = "main_metrics"
    /\ precision_arg' = Some(main.precision)
    /\ LET made == Constructed(main.precision)
       IN  IF made.raised # ""
           THEN /\ raised' = made.raised
                /\ pc' = "raised"
                /\ UNCHANGED <<calculator, op, entry, ret>>
           ELSE /\ calculator' = made.calculator
                /\ op' = "main"
                /\ pc' = "total_memory"
                /\ entry' = config
                /\ ret' = None
                /\ UNCHANGED raised
    /\ UNCHANGED <<config, frames, history, io>>

\* calculate_moe_metrics, lines 347-362
Report(metrics, precision) ==
    [line         |-> "report",
     precision    |-> precision,
     weights_gb   |-> format_2f(metrics.weights_gb),
     kv_cache_gb  |-> format_2f(metrics.kv_cache_gb),
     total_gb     |-> format_2f(metrics.total_gb)]

\* calculate_moe_metrics, lines 343-362, and the print of line 401
MainReport ==
    /\ pc = "main_report"
    /\ stdout' = stdout \o <<Report(The(ret), main.precision)>>
    /\ pc' = "exit"
    /\ UNCHANGED <<source, stdin, config, calculator, precision_arg, raised, op,
                   frames, ret, entry, history>>

(***************************************************************************)
(* The sets the inputs are drawn from. *)
(***************************************************************************)
MaxDim == 2
MaxSeq == 3
MaxRaw == 1
MaxPad == 1

Multipliers == {D(5, 2), D(1, 1)}

\* (a, N, top_k)
Shapes == {<<1, 1, 1>>, <<MaxDim, MaxDim, 1>>, <<1, MaxDim, MaxDim>>}

Configs ==
    {get_default_config} \cup
    {[V |-> V, h |-> h, l |-> l, a |-> x[1], N |-> x[2], f_mult |-> f, s |-> s,
      top_k |-> x[3]] :
        V \in 1..MaxDim, h \in 1..MaxDim, l \in {1, MaxDim}, x \in Shapes,
        f \in Multipliers, s \in 1..MaxSeq}

PrecisionArguments == DOMAIN PRECISION_BYTES \cup {"", "fp8", "BFLOAT16"}

\* What a loader may be handed: the default mapping with one field changed,
\* cut down to any subset of its keys, with or without a key that is no field.
RawRecords ==
    {get_default_config} \cup
    {[get_default_config EXCEPT ![f] = v] :
        f \in Fields \ {"f_mult"}, v \in (-1)..MaxRaw} \cup
    {[get_default_config EXCEPT !.f_mult = I(0)]}

Restrict(r, keys) == [f \in keys |-> r[f]]

Mappings ==
    {Restrict(r, keys) : r \in RawRecords, keys \in SUBSET Fields} \cup
    {Restrict(r, keys) @@ [extra |-> 0] : r \in RawRecords, keys \in SUBSET Fields}

Dicts == {None} \cup {Some([kind |-> "object", value |-> m]) : m \in Mappings}

Files ==
    {[kind |-> "missing"], [kind |-> "malformed"], [kind |-> "array"]} \cup
    {[kind |-> "object", value |-> m] : m \in Mappings}

Path(name, file) == Some([kind |-> "path", name |-> name, file |-> file])

Sources ==
    {[config_path |-> p, config_dict |-> d] :
        p \in {None, Path(<<>>, [kind |-> "missing"])}, d \in Dicts} \cup
    {[config_path |-> Path(<<"c">>, file), config_dict |-> d] :
        file \in Files,
        d \in {None, Some([kind |-> "object", value |-> get_default_config])}}

\* A line typed at the prompt: a word in some mix of cases, between white space.
upper_char(ch) ==
    IF \E i \in DOMAIN LowerCase : LowerCase[i] = ch
    THEN UpperCase[CHOOSE i \in DOMAIN LowerCase : LowerCase[i] = ch]
    ELSE ch

Cased(word) ==
    {word, [i \in DOMAIN word |-> upper_char(word[i])],
     [i \in DOMAIN word |-> IF i = 1 THEN upper_char(word[i]) ELSE word[i]]}

Words ==
    UNION {Cased(Spelling[label]) : label \in DOMAIN Spelling} \cup
    {<<>>, <<"f", "p", "8">>, <<"i", "n", "t">>, <<"i", "n", "t", "4", "4">>,
     <<"i", "n", " ", "t", "4">>, <<"F", "L", "O", "A", "T">>}

RECURSIVE Pads(_)
Pads(n) ==
    IF n = 0 THEN {<<>>}
    ELSE Pads(n - 1) \cup {<<w>> \o pad : w \in Whitespace, pad \in Pads(n - 1)}

Inputs == {left \o word \o right : left \in Pads(MaxPad), word \in Words,
                                   right \in Pads(MaxPad)}

Blank ==
    /\ calculator = None
    /\ precision_arg = None
    /\ raised = ""
    /\ op = ""
    /\ main = None
    /\ total = None
    /\ decode = None
    /\ decoder = None
    /\ ret = None
    /\ entry = None
    /\ last_total = None
    /\ prev_total = None
    /\ stdout = <<>>

(***************************************************************************)
(* Spec: a caller that holds a config, constructs one calculator over it   *)
(* and calls its methods, one after the other, any number of times.        *)
(***************************************************************************)
Init ==
    /\ source = [config_path |-> None, config_dict |-> None]
    /\ config \in {Some(c) : c \in Configs}
    /\ stdin = <<>>
    /\ pc = "idle"
    /\ Blank

ConstructOnce == \E precision \in PrecisionArguments :
    calculator = None /\ Construct(precision)

CallMethod == \E method \in Methods : Call(method)

Next == ConstructOnce \/ CallMethod \/ Steps

Spec == Init /\ [][Next]_vars

(***************************************************************************)
(* SpecPrecision: a caller that holds a config and computes the totals     *)
(* with two calculators over it, one after the other, of any precisions.   *)
(***************************************************************************)
ConstructNext == \E precision \in DOMAIN PRECISION_BYTES :
    prev_total = None /\ Construct(precision)

CallTotal == Call("calculate_total")

NextPrecision == ConstructNext \/ CallTotal \/ Steps

SpecPrecision == Init /\ [][NextPrecision]_vars

(***************************************************************************)
(* SpecLoad: one call of load_config.                                      *)
(***************************************************************************)
InitLoad ==
    /\ source \in Sources
    /\ config = None
    /\ stdin = <<>>
    /\ pc = "load_config"
    /\ Blank

NextLoad == LoadConfig

SpecLoad == InitLoad /\ [][NextLoad]_vars

(***************************************************************************)
(* SpecMain: one run of main on a line of input.                           *)
(***************************************************************************)
InitMain ==
    /\ source = [config_path |-> None, config_dict |-> None]
    /\ config = None
    /\ stdin \in Inputs
    /\ pc = "main"
    /\ Blank

NextMain == MainLoad \/ MainPrecision \/ MainMetrics \/ Steps \/ MainReport

SpecMain == InitMain /\ [][NextMain]_vars

(***************************************************************************)
(* The claims.                                                             *)
(***************************************************************************)
Returned(method) == pc = "idle" /\ op = method /\ ret # None

\* C1: when calculate_decode_flops, calculate_decoder_flops_decode or
\* calculate_total has returned, every field of the shared config has the value
\* it had when the call started.
C1_ConfigUnchangedOnReturn ==
    \A method \in Methods : Returned(method) => config = entry

\* A call of calculate_total, whose two decode methods nest, has returned on a
\* config whose s is not the 1 written during the call.
C1_Witness == Returned("calculate_total") /\ The(entry).s = MaxSeq

\* C2: the results of two calculate_total calls in a row, on one calculator or
\* on two calculators of one precision over the same config, are equal in every
\* key.
C2_Idempotent ==
    (prev_total # None /\ last_total # None
       /\ The(prev_total).precision = The(last_total).precision)
        => last_total = prev_total

C2_Witness ==
    /\ prev_total # None
    /\ last_total # None
    /\ The(prev_total).precision = The(last_total).precision
    /\ pc = "idle"
    /\ The(config).s > 1

DefaultAtBfloat16 ==
    /\ Returned("calculate_total")
    /\ The(entry) = get_default_config
    /\ The(calculator).precision = "bfloat16"

\* C3 as stated: for the default configuration at bfloat16, weights_gb is 17.75
\* and kv_cache_gb is 1.00 at two decimals.
C3_AsClaimed ==
    DefaultAtBfloat16 =>
        /\ format_2f(The(ret).weights_gb) = BNat(1775)
        /\ format_2f(The(ret).kv_cache_gb) = BNat(100)

\* C3 amended: for the default configuration at bfloat16, weights_gb is 34.50
\* and kv_cache_gb is 1.00 at two decimals.
C3_DefaultFootprint ==
    DefaultAtBfloat16 =>
        /\ format_2f(The(ret).weights_gb) = BNat(3450)
        /\ format_2f(The(ret).kv_cache_gb) = BNat(100)

C3_Witness == DefaultAtBfloat16

\* The mapping a source hands to load_config: the dict when only a dict is
\* given, the JSON object of the file when only a path is given.
Handed ==
    IF source.config_path = None /\ source.config_dict # None
    THEN Some(The(source.config_dict).value)
    ELSE IF source.config_path # None /\ source.config_dict = None
            /\ The(source.config_path).name # <<>>
            /\ The(source.config_path).file.kind = "object"
    THEN Some(The(source.config_path).file.value)
    ELSE None

\* C4: load_config, handed a mapping that lacks one of the eight fields, fails
\* and returns no config.
C4_MissingFieldRejected ==
    (pc # "load_config" /\ Handed # None /\ Fields \ DOMAIN The(Handed) # {})
        => (config = None /\ raised # "")

\* C5: for positive fields and s > 1, decode_flops is strictly less than
\* prefill_flops.
C5_DecodeBelowPrefill ==
    (Returned("calculate_total") /\ The(entry).s > 1)
        => DLess(The(ret).decode_flops, The(ret).prefill_flops)

C5_Witness == Returned("calculate_total") /\ The(entry).s > 1

\* C6: for one configuration, total_bytes at float32 is 8 times that at int4
\* and 2 times that at float16 and at bfloat16, which are equal.
Scaling(r1, r2) ==
    /\ (r1.precision = "float32" /\ r2.precision = "int4")
           => r1.total_bytes = I(8) \otimes r2.total_bytes
    /\ (r1.precision = "float32" /\ r2.precision \in {"float16", "bfloat16"})
           => r1.total_bytes = I(2) \otimes r2.total_bytes
    /\ (r1.precision = "float16" /\ r2.precision = "bfloat16")
           => r1.total_bytes = r2.total_bytes

C7_UnknownPrecisionFails ==
    (precision_arg # None
       /\ The(precision_arg) \notin {"float32", "bfloat16", "float16", "int8", "int4"})
        => /\ raised = "KeyError"
           /\ calculator = None
           /\ ret = None
           /\ last_total = None
           /\ ~ENABLED CallMethod

C7_Witness == precision_arg = Some("fp8") /\ pc = "raised"

\* C8: in main the precision is one of the five labels: a label typed in any
\* mix of cases between white space selects that label, a blank line selects
\* bfloat16, anything else selects bfloat16 and a warning is printed before the
\* report; the constructor's lookup never fails.
Capital ==
    [a |-> "A", b |-> "B", f |-> "F", i |-> "I", l |-> "L", n |-> "N", o |-> "O",
     t |-> "T"]

SameLetter(ch, letter) ==
    ch = letter \/ (letter \in DOMAIN Capital /\ ch = Capital[letter])

\* text is word, in any mix of cases, between runs of white space.
Typed(text, word) ==
    \E i \in 0..Len(text) :
        /\ Len(text) - i >= Len(word)
        /\ \A j \in 1..i : text[j] \in {" ", "\t"}
        /\ \A j \in 1..Len(word) : SameLetter(text[i + j], word[j])
        /\ \A j \in (i + Len(word) + 1)..Len(text) : text[j] \in {" ", "\t"}

Warned == \E i \in DOMAIN stdout : stdout[i].line = "invalid precision"

\* The report is the last line printed, after the warning if there is one.
Reported(label) ==
    /\ stdout # <<>>
    /\ stdout[Len(stdout)].line = "report"
    /\ stdout[Len(stdout)].precision = label
    /\ Warned => \E i \in 1..(Len(stdout) - 1) : stdout[i].line = "invalid precision"

C8_MainPrecision ==
    /\ raised = ""
    /\ main # None =>
          /\ \A label \in {"float32", "bfloat16", "float16", "int8", "int4"} :
                Typed(stdin, Spelling[label]) => (main.precision = label /\ ~Warned)
          /\ Typed(stdin, <<>>) => (main.precision = "bfloat16" /\ ~Warned)
          /\ ((\A label \in {"float32", "bfloat16", "float16", "int8", "int4"} :
                  ~Typed(stdin, Spelling[label])) /\ ~Typed(stdin, <<>>))
                => (main.precision = "bfloat16" /\ Warned)
    /\ precision_arg # None =>
          /\ The(precision_arg) \in {"float32", "bfloat16", "float16", "int8", "int4"}
          /\ The(precision_arg) = main.precision
    /\ pc = "exit" => Reported(main.precision)

C8_Witness ==
    /\ pc = "exit"
    /\ stdin = <<" ", "I", "N", "T", "4", "\t">>
    /\ Reported("int4")

\* C9: every config the loader returns has positive fields.
C9_LoadedConfigPositive ==
    config # None =>
        /\ \A f \in Fields \ {"f_mult"} : The(config)[f] > 0
        /\ The(config).f_mult # I(0)

\* C10: calculate_decode_flops returns
\* 4*V*h + l*(14*h + (8*h^2 + 4*s*h + 3*s*a) + 0.75*h + N*(2*h+3)
\*            + 2*top_k*f_mult*h*(4*h+3))
\* for the s the call started with: the embedding, layer-norm, router and MoE
\* terms are read while config.s is 1, the attention term after config.s is
\* the original s again, and both saved values are the original s.
DecodeFormula(c) ==
    LET V == I(c.V)  h == I(c.h)  l == I(c.l)  a == I(c.a)  N == I(c.N)
        s == I(c.s)  top_k == I(c.top_k)  f_mult == c.f_mult
    IN  I(4) \otimes V \otimes h
          \oplus l \otimes (I(14) \otimes h
                              \oplus (I(8) \otimes h \otimes h
                                        \oplus I(4) \otimes s \otimes h
                                        \oplus I(3) \otimes s \otimes a)
                              \oplus D(3, 2) \otimes h
                              \oplus N \otimes (I(2) \otimes h \oplus I(3))
                              \oplus I(2) \otimes top_k \otimes f_mult \otimes h
                                       \otimes (I(4) \otimes h \oplus I(3)))

C10_DecodeFlops ==
    /\ Returned("calculate_decode_flops") => The(ret) = DecodeFormula(The(entry))
    /\ pc \in {"decode_embedding", "decoder_components"} => The(config).s = 1
    /\ pc = "decoder_attention" => The(config).s = The(entry).s
    /\ decode # None => decode.original_s = The(entry).s
    /\ decoder # None => decoder.original_s = The(entry).s

C10_Witness == Returned("calculate_decode_flops") /\ The(entry).s = MaxSeq
====
